---- MODULE Spec2Model ----
(***************************************************************************)
(* Scrum-poker room presence and consistency core.                         *)
(*                                                                         *)
(* One room code of the Firebase Realtime Database (rooms/<roomId>) and a  *)
(* few browser tabs (clients) running App (src/unnamed/part_002) and Room  *)
(* (src/src/Room.jsx, the second component of the file, lines 1525-3253).  *)
(* Every awaited store operation of a handler is one step; a transaction   *)
(* (runTransaction) commits atomically with its updater applied to the     *)
(* value stored at commit time.  A node of the store exists iff one of its *)
(* children is non-null, so any write of a non-null leaf creates every     *)
(* missing ancestor.  What a handler does before its first await runs with *)
(* that first operation (JavaScript runs a handler to its first await); a  *)
(* tab decides on its last snapshot (view), which lags behind the store.   *)
(*                                                                         *)
(* joinRoom has no caller in Room.jsx; it is modelled as an operation a    *)
(* mounted tab can start.  The offline banner is left out; of the writes   *)
(* of Leave, the removals may be rejected.  The Cloud Function             *)
(* removeParticipantOnLeft (src/unnamed/part_001) handles the writes of    *)
(* leftAt once it is deployed.                                             *)
(*                                                                         *)
(* Spec is the whole program.  SpecLife, SpecRound, SpecJoin, SpecRejoin,  *)
(* SpecLeave, SpecGone, SpecClose, SpecPresence, SpecAverage, SpecDeferred,*)
(* SpecTrigger, SpecFail, SpecKick, SpecOwner, SpecExit, SpecHeal and     *)
(* SpecSame take the same Init and a part of Next each (some of the        *)
(* operations, some of them for one tab only), which TLC explores in full: *)
(* each of their behaviours is a behaviour of Spec.  SpecClose adds the    *)
(* fairness of the listener.                                               *)
(* SpecUrl starts from InitUrl, a page opened at any of the addresses of   *)
(* Urls, and runs the start-up of App.  SpecDup starts from InitDup, a     *)
(* room that holds one record of another identity, and runs joinRoom.      *)
(* SpecExit adds the fairness of a running Leave handler, SpecHeal that of *)
(* the auto-rejoin effect.                                                 *)
(***************************************************************************)
EXTENDS Integers, FiniteSets, Sequences, TLC

\* ------------------------------------------------------------------ bounds

MaxTicks == 3

MaxReset == 2

MaxLoads == 2

\* ------------------------------------------------------- program constants

HEARTBEAT_MS == 5000

OFFLINE_MULTIPLIER == 3

\* one step of the model clock is one offline threshold (15 s)
TickMs == HEARTBEAT_MS * OFFLINE_MULTIPLIER

CLEAN_STALE_MS_T == 30 * 1000

STALE_MS == 5 * 60 * 1000

\* Leave: remove(target) is attempted this many times
LEAVE_ATTEMPTS == 3

\* ------------------------------------------------------------- identities

\* browser tabs; a tab's persistent clientId (localStorage) is the tab's name
Clients == {"A", "B"}

\* the anonymous identities ensureAuth issues to a tab, in order of issue
Identities == [A |-> <<"a1", "a2">>, B |-> <<"b1">>]

Uids == {"a1", "a2", "b1"}

\* display names (localStorage scrum-poker-name): both tabs use the same one
displayName == [A |-> "Sam", B |-> "Sam"]

\* the deck, in the order of the source; "oo" and "cup" stand for the
\* infinity and the coffee card
CARDS == <<"0", "1", "2", "3", "5", "8", "13", "21", "34", "55", "89", "?", "oo", "cup">>

\* the cards the tabs pick in a voting round
VoteInputs == {"1", "5"}

\* the cards the tabs pick where the aggregate is examined
AverageInputs == {"0", "1", "2", "3", "5", "?"}

None == "none"

\* ------------------------------------------------------------ store values

NoRec ==
  [name |-> None, vote |-> None, clientId |-> None, joinedAt |-> 0,
   lastSeen |-> 0, disconnectedAt |-> None, disconnectedSession |-> None,
   disconnected |-> None, revealOffline |-> None, leftAt |-> 0]

NoParts == [u \in Uids |-> NoRec]

\* rooms/<id>/removedParticipants/<u>: { removedAt, leftAt }
NoTomb == [removedAt |-> 0, leftAt |-> 0]

NoRoom ==
  [createdAt |-> 0, owner |-> None, state |-> None, story |-> None,
   resetEvent |-> 0, participants |-> NoParts,
   removedParticipants |-> [u \in Uids |-> NoTomb],
   kicks |-> [u \in Uids |-> FALSE]]

\* snap.exists(): a node exists iff some child is non-null
Exists(r) == r # NoRoom

PExists(r, u) == r.participants[u] # NoRec

\* set(ref(rooms/<id>/participants/<u>/<f>), v); v = None or 0 removes the leaf
SetField(r, u, f, v) == [r EXCEPT !.participants[u][f] = v]

\* remove(ref(rooms/<id>/participants/<u>))
RemovePart(r, u) == [r EXCEPT !.participants[u] = NoRec]

\* Leave, aggressive cleanup: every key of the room that refers to <u>
ForgetUid(r, u) ==
  [r EXCEPT !.participants[u] = NoRec, !.kicks[u] = FALSE,
            !.removedParticipants[u] = NoTomb]

\* ------------------------------------------------------------------ state

VARIABLES
  room,       \* the value stored at rooms/<roomId>
  now,        \* Date.now()
  cl,         \* per tab: App and Room component state, timers, storage
  odPending,  \* deferred (onDisconnect) writes of severed connections
  trigger     \* removeParticipantOnLeft: deployed or not, invocations to run

vars == <<room, now, cl, odPending, trigger>>

SessionIds == [A |-> <<"sA1", "sA2", "sA3", "sA4">>, B |-> <<"sB1", "sB2", "sB3", "sB4">>]

\* user.uid of a tab (ensureAuth)
uid(c) == Identities[c][cl[c].idx]

\* sessionId of the tab's current page load
sessionId(c) == SessionIds[c][cl[c].load]

NoView == [has |-> FALSE, owner |-> None, state |-> None, mine |-> FALSE]

\* the part of a snapshot the component keeps in `room` and reads back
ViewOf(r, u) ==
  [has |-> TRUE, owner |-> r.owner, state |-> r.state, mine |-> PExists(r, u)]

\* Room state right after the component mounts (useState initialisers)
Mounted(l) ==
  [l EXCEPT !.mounted = TRUE, !.pc = "init_get", !.view = NoView,
            !.joined = FALSE, !.roomMissing = FALSE, !.subscribed = FALSE,
            !.nameDirty = TRUE, !.arPending = FALSE, !.gone = None,
            !.toast = None, !.kicked = FALSE]

\* onLeave(): App sets mode 'home'; the room effect's cleanup detaches onValue.
\* Timers and handlers in flight are not cancelled.
Unmounted(l) ==
  [l EXCEPT !.mounted = FALSE, !.subscribed = FALSE, !.nameDirty = FALSE,
            !.arPending = FALSE]

isModerator(c) == cl[c].view.has /\ cl[c].view.owner = uid(c)

\* the entry screen is shown and no handler of this tab is in flight
AtHome(c) == ~cl[c].mounted /\ cl[c].pc = "idle"

\* window.location of a page opened without a room code: no roomId in the
\* query, none in the fragment, a path that is not /room/...
NoUrl == [query |-> None, hash |-> None, path |-> None]

\* toast is toastMessage; errorLog the last console.error of a state change
\* that was given up.
\* opMissing is a history flag: the room was absent when joinRoom was entered;
\* gone is one too: the identity whose Leave has finished, until the user
\* enters the room again.  removed is the local of the Leave handler's
\* participant branch ("true" / "false"), None outside of it; attempt is the
\* counter of its removal loop.  kicked is a history flag: the tab was sent
\* to the entry screen by a kick and the user has not entered a room since
InitClient ==
  [idx |-> 1, load |-> 1, mounted |-> FALSE, pc |-> "idle", view |-> NoView,
   joined |-> FALSE,
   leftFlag |-> FALSE, roomMissing |-> FALSE, subscribed |-> FALSE,
   hb |-> FALSE, nameDirty |-> FALSE, arPending |-> FALSE, clears |-> FALSE,
   cleanups |-> FALSE, odReg |-> 0, stateTx |-> FALSE, jmod |-> FALSE,
   prUid |-> None, pr |-> NoRec, opMissing |-> FALSE, removed |-> None,
   gone |-> None, url |-> NoUrl, roomId |-> "", boot |-> "done",
   toast |-> None, errorLog |-> None, kickTimers |-> {}, attempt |-> 0,
   kicked |-> FALSE]

Init ==
  /\ room = NoRoom
  /\ now = TickMs
  /\ cl = [c \in Clients |-> InitClient]
  /\ odPending = {}
  /\ trigger = [deployed |-> FALSE, events |-> {}]

\* the changes of participants/<u>/leftAt between two values of the room, as
\* the database reports them to an onWrite trigger: change.after.val()
LeftAtWrites(before, after) ==
  {[uid |-> u, leftAt |-> after.participants[u].leftAt] :
     u \in {x \in Uids : before.participants[x].leftAt # after.participants[x].leftAt}}

\* functions.database.ref('/rooms/{roomId}/participants/{uid}/leftAt').onWrite:
\* once the function is deployed every such change is an invocation
onWrite(t, before, after) ==
  IF t.deployed
  THEN [t EXCEPT !.events = @ \union LeftAtWrites(before, after)]
  ELSE t

\* ---------------------------------------------------- transaction updaters

\* faulty variant of CreateUpdater: initialises the room whatever is stored
CreateUpdater_Overwrite(current, u, t) ==
  [NoRoom EXCEPT !.createdAt = t, !.state = "voting", !.story = "", !.owner = u]

\* App: Random Code / Join-Create Room transaction
CreateUpdater(current, u, t) ==
  IF ~Exists(current)
  THEN [NoRoom EXCEPT !.createdAt = t, !.state = "voting", !.story = "",
                      !.owner = u]
  ELSE IF current.owner = None THEN [current EXCEPT !.owner = u] ELSE current

\* Room, roomMissing panel: Create Room transaction (aborts on an existing room)
PanelCreateUpdater(cur, u) ==
  IF Exists(cur) THEN cur
  ELSE [NoRoom EXCEPT !.owner = u, !.state = "voting"]

\* faulty variant of OwnerAssignUpdater: assigns without reading the owner
OwnerAssignUpdater_NoGuard(current, u) ==
  IF ~Exists(current) THEN current ELSE [current EXCEPT !.owner = u]

\* initRoom: owner-assign transaction on the room root
OwnerAssignUpdater(current, u) ==
  IF ~Exists(current) THEN current
  ELSE IF current.owner = None THEN [current EXCEPT !.owner = u] ELSE current

\* faulty variant of OwnerChildUpdater: a plain set of the owner child
OwnerChildUpdater_Set(current, u) == [current EXCEPT !.owner = u]

\* joinRoom: transaction on the owner child, cur || user.uid
OwnerChildUpdater(current, u) ==
  IF current.owner # None THEN current ELSE [current EXCEPT !.owner = u]

\* App effect updateRoomState: transaction on the state child
StateChildUpdater(current) ==
  IF current.state = None THEN [current EXCEPT !.state = "voting"] ELSE current

\* faulty variant of RevealUpdater: the owner is annotated like anyone else
RevealUpdater_OwnerToo(current) ==
  IF ~Exists(current) THEN current
  ELSE [current EXCEPT
          !.state = "revealed",
          !.participants =
            [u \in Uids |->
               IF @[u] # NoRec /\ @[u].vote = None
               THEN [@[u] EXCEPT !.revealOffline = "true", !.disconnectedAt = "true"]
               ELSE @[u]]]

\* reveal: transaction on the room root
RevealUpdater(current) ==
  IF ~Exists(current) THEN current
  ELSE [current EXCEPT
          !.state = "revealed",
          !.participants =
            [u \in Uids |->
               IF /\ @[u] # NoRec
                  /\ ~(current.owner # None /\ u = current.owner)
                  /\ @[u].vote = None
               THEN [@[u] EXCEPT !.revealOffline = "true", !.disconnectedAt = "true"]
               ELSE @[u]]]

\* faulty variant of ResetUpdater: the votes are left in place
ResetUpdater_KeepVotes(current, newResetId) ==
  IF ~Exists(current) THEN current
  ELSE [current EXCEPT !.state = "voting", !.resetEvent = newResetId]

\* reset: transaction on the room root; newResetId = uuidv4()
ResetUpdater(current, newResetId) ==
  IF ~Exists(current) THEN current
  ELSE [current EXCEPT
          !.participants = [u \in Uids |-> [@[u] EXCEPT !.vote = None]],
          !.state = "voting",
          !.resetEvent = newResetId]

\* ------------------------------------------------------------ App actions

\* what the three places of the address can hold: nothing, an empty value
\* (?roomId=, #roomId=, /room/), a code
Urls ==
  [query : {None, "", "QQQQ"}, hash : {None, "", "HHHH"}, path : {None, "", "PPPP"}]

\* a value that passes `if (x)`: neither null/undefined nor ''
Truthy(x) == x # None /\ x # ""

\* useState initialiser of roomId: query, then fragment, then path
initialRoomId(u) ==
  LET q == u.query
      h == IF ~Truthy(q) THEN u.hash ELSE q
      p == IF ~Truthy(h) /\ u.path # None THEN u.path ELSE h
  IN IF Truthy(p) THEN p ELSE ""

\* mount effect: query, then path
roomIdFromUrl(u) ==
  IF ~Truthy(u.query) /\ u.path # None THEN u.path ELSE u.query

\* the page is opened at some address
InitUrl ==
  /\ room = NoRoom
  /\ now = TickMs
  /\ cl \in [Clients -> {[InitClient EXCEPT !.url = u, !.boot = "load"] : u \in Urls}]
  /\ odPending = {}
  /\ trigger = [deployed |-> FALSE, events |-> {}]

\* App, first render: the useState initialisers run
AppInit(c) ==
  /\ cl[c].boot = "load"
  /\ cl' = [cl EXCEPT ![c].roomId = initialRoomId(cl[c].url), ![c].boot = "effect"]
  /\ UNCHANGED <<room, now, odPending, trigger>>

\* App, after the first render: the mount effect reads the address again
UrlEffect(c) ==
  /\ cl[c].boot = "effect"
  /\ cl' = [cl EXCEPT ![c].roomId = IF Truthy(roomIdFromUrl(cl[c].url))
                                    THEN roomIdFromUrl(cl[c].url) ELSE @,
                      ![c].boot = "done"]
  /\ UNCHANGED <<room, now, odPending, trigger>>

\* Random Code button: create transaction, the tab stays on the entry screen
RandomCode(c) ==
  /\ AtHome(c)
  /\ room' = CreateUpdater(room, uid(c), now)
  /\ UNCHANGED <<now, cl, odPending>>
  /\ trigger' = onWrite(trigger, room, room')

\* Join / Create Room button: create transaction, then setMode('room')
JoinCreateRoom(c) ==
  /\ AtHome(c)
  /\ room' = CreateUpdater(room, uid(c), now)
  /\ cl' = [cl EXCEPT ![c] = Mounted(@)]
  /\ UNCHANGED <<now, odPending>>
  /\ trigger' = onWrite(trigger, room, room')

\* Room Invitation screen, Join Room button: setMode('room') only
InviteJoin(c) ==
  /\ AtHome(c)
  /\ cl' = [cl EXCEPT ![c] = Mounted(@)]
  /\ UNCHANGED <<room, now, odPending>>
  /\ trigger' = onWrite(trigger, room, room')

\* App effect on roomId: read the room, skip when it is missing
AppStateGet(c) ==
  /\ AtHome(c)
  /\ ~cl[c].stateTx
  /\ Exists(room)
  /\ cl' = [cl EXCEPT ![c].stateTx = TRUE]
  /\ UNCHANGED <<room, now, odPending>>
  /\ trigger' = onWrite(trigger, room, room')

\* ... then the narrow transaction on rooms/<id>/state
AppStateTx(c) ==
  /\ cl[c].stateTx
  /\ room' = StateChildUpdater(room)
  /\ cl' = [cl EXCEPT ![c].stateTx = FALSE]
  /\ UNCHANGED <<now, odPending>>
  /\ trigger' = onWrite(trigger, room, room')

\* ------------------------------------------------- Room: connect and watch

\* initRoom: getWithRetry; a missing room (or no snapshot) ends in roomMissing
InitGet(c) ==
  /\ cl[c].pc = "init_get"
  /\ \E ok \in BOOLEAN :
       cl' = [cl EXCEPT ![c] =
                IF ok /\ Exists(room)
                THEN [@ EXCEPT !.pc = "init_tx"]
                ELSE [@ EXCEPT !.pc = "idle", !.roomMissing = TRUE,
                               !.toast = "Room not found"]]
  /\ UNCHANGED <<room, now, odPending>>
  /\ trigger' = onWrite(trigger, room, room')

\* initRoom: owner-assign transaction (or all its attempts fail), then onValue
InitTx(c) ==
  /\ cl[c].pc = "init_tx"
  /\ \E ok \in BOOLEAN :
       room' = IF ok THEN OwnerAssignUpdater(room, uid(c)) ELSE room
  /\ cl' = [cl EXCEPT ![c].pc = "idle", ![c].subscribed = cl[c].mounted]
  /\ UNCHANGED <<now, odPending>>
  /\ trigger' = onWrite(trigger, room, room')

\* the deferred writes a tab has registered with the server
Deferred(c) ==
  IF cl[c].odReg # 0
  THEN {[uid |-> uid(c), sess |-> sessionId(c), at |-> cl[c].odReg]}
  ELSE {}

\* a fresh page load of the tab: the component state and the timers are gone,
\* sessionStorage (the left flag) and the identity survive; the page gets a
\* new sessionId while the model has one left
Reloaded(l, newIdx) ==
  [InitClient EXCEPT !.load = IF l.load < MaxLoads THEN l.load + 1 ELSE l.load,
                     !.idx = newIdx,
                     !.leftFlag = l.leftFlag,
                     !.gone = l.gone]

\* faulty variant of Observe: a missing room is kept on screen
Observe_KeepOnMissing(c) ==
  /\ cl[c].subscribed
  /\ cl[c].view # ViewOf(room, uid(c)) \/ ~Exists(room)
  /\ cl' = [cl EXCEPT ![c] =
              IF ~Exists(room) THEN [@ EXCEPT !.view = NoView]
              ELSE IF room.owner = None THEN Reloaded(@, @.idx)
              ELSE [@ EXCEPT !.view = ViewOf(room, uid(c)),
                             !.joined = @ \/ PExists(room, uid(c)),
                             !.clears = @ \/ (~cl[c].joined /\ PExists(room, uid(c))),
                             !.arPending = TRUE]]
  /\ odPending' = IF Exists(room) /\ room.owner = None
                  THEN odPending \union Deferred(c) ELSE odPending
  /\ UNCHANGED <<room, now>>
  /\ trigger' = onWrite(trigger, room, room')

\* faulty variant of Observe: an ownerless room is kept like any other
Observe_KeepOnOwnerless(c) ==
  /\ cl[c].subscribed
  /\ cl[c].view # ViewOf(room, uid(c)) \/ ~Exists(room)
  /\ cl' = [cl EXCEPT ![c] =
              IF ~Exists(room) THEN Unmounted(@)
              ELSE [@ EXCEPT !.view = ViewOf(room, uid(c)),
                             !.joined = @ \/ PExists(room, uid(c)),
                             !.clears = @ \/ (~cl[c].joined /\ PExists(room, uid(c))),
                             !.arPending = TRUE]]
  /\ odPending' = odPending
  /\ UNCHANGED <<room, now>>
  /\ trigger' = onWrite(trigger, room, room')

\* onValueCallback, kick branch: remove(rooms/<id>/kicks/<uid>)
Kicked(r, u) == IF r.kicks[u] THEN [r EXCEPT !.kicks[u] = FALSE] ELSE r

\* onValueCallback: a missing room ends in onLeave(); an ownerless room in
\* onLeave() and window.location.reload(); a kick flag on the own uid is
\* removed and ends in onLeave(); otherwise the snapshot is kept
Observe(c) ==
  /\ cl[c].subscribed
  /\ cl[c].view # ViewOf(room, uid(c)) \/ ~Exists(room) \/ room.kicks[uid(c)]
  /\ cl' = [cl EXCEPT ![c] =
              IF ~Exists(room) THEN Unmounted(@)
              ELSE IF room.owner = None THEN Reloaded(@, @.idx)
              ELSE IF room.kicks[uid(c)]
              THEN Unmounted([@ EXCEPT !.view = ViewOf(room, uid(c)),
                                       !.joined = @ \/ PExists(room, uid(c)),
                                       !.kicked = TRUE])
              ELSE [@ EXCEPT !.view = ViewOf(room, uid(c)),
                             !.joined = @ \/ PExists(room, uid(c)),
                             !.clears = @ \/ (~cl[c].joined /\ PExists(room, uid(c))),
                             !.arPending = TRUE]]
  /\ room' = Kicked(room, uid(c))
  /\ odPending' = IF Exists(room) /\ room.owner = None
                  THEN odPending \union Deferred(c) ELSE odPending
  /\ UNCHANGED now
  /\ trigger' = onWrite(trigger, room, room')

\* displayName effect: narrow write of the name, whatever the room holds
NameWrite(c) ==
  /\ cl[c].mounted
  /\ cl[c].nameDirty
  /\ room' = SetField(room, uid(c), "name", displayName[c])
  /\ cl' = [cl EXCEPT ![c].nameDirty = FALSE]
  /\ UNCHANGED <<now, odPending>>
  /\ trigger' = onWrite(trigger, room, room')

\* the roomMissing panel is rendered: behind the loading and !room returns
PanelView(c) ==
  cl[c].mounted /\ cl[c].pc = "idle" /\ cl[c].view.has /\ cl[c].roomMissing

\* roomMissing panel: Retry (initRoom again)
PanelRetry(c) ==
  /\ PanelView(c)
  /\ cl' = [cl EXCEPT ![c].pc = "init_get", ![c].roomMissing = FALSE]
  /\ UNCHANGED <<room, now, odPending>>
  /\ trigger' = onWrite(trigger, room, room')

\* roomMissing panel: Create Room (transaction, then initRoom again)
PanelCreate(c) ==
  /\ PanelView(c)
  /\ room' = PanelCreateUpdater(room, uid(c))
  /\ cl' = [cl EXCEPT ![c].pc = "init_get", ![c].roomMissing = FALSE,
                      ![c].toast = "Room created"]
  /\ UNCHANGED <<now, odPending>>
  /\ trigger' = onWrite(trigger, room, room')

\* ------------------------------------------------------- Room: operations

\* the main view is rendered: a snapshot was received and no panel replaces it
MainView(c) ==
  cl[c].mounted /\ cl[c].pc = "idle" /\ cl[c].view.has /\ ~cl[c].roomMissing

\* the Reveal and Restart buttons are on screen: they stay active while an
\* asynchronous handler of the tab (Leave, joinRoom) is awaiting
Shown(c) == cl[c].mounted /\ cl[c].view.has /\ ~cl[c].roomMissing

\* castVote: guarded by the local snapshot; three narrow writes
castVote(c, value) ==
  /\ MainView(c)
  /\ cl[c].view.state = "voting"
  /\ room' = SetField(SetField(SetField(room, uid(c), "disconnectedAt", "false"),
                               uid(c), "revealOffline", None),
                      uid(c), "vote", value)
  /\ UNCHANGED <<now, cl, odPending>>
  /\ trigger' = onWrite(trigger, room, room')

\* Reveal button (shown to the moderator while the local state is voting)
reveal(c) ==
  /\ Shown(c)
  /\ isModerator(c)
  /\ cl[c].view.state = "voting"
  /\ room' = RevealUpdater(room)
  /\ UNCHANGED <<now, cl, odPending>>
  /\ trigger' = onWrite(trigger, room, room')

\* Restart button (shown to the moderator while the local state is revealed)
reset(c) ==
  /\ Shown(c)
  /\ isModerator(c)
  /\ cl[c].view.state = "revealed"
  /\ room.resetEvent < MaxReset
  /\ room' = ResetUpdater(room, room.resetEvent + 1)
  /\ UNCHANGED <<now, cl, odPending>>
  /\ trigger' = onWrite(trigger, room, room')

\* reveal when its transaction is rejected: the catch logs to the console
revealRejected(c) ==
  /\ Shown(c)
  /\ isModerator(c)
  /\ cl[c].view.state = "voting"
  /\ cl' = [cl EXCEPT ![c].errorLog = "reveal"]
  /\ UNCHANGED <<room, now, odPending, trigger>>

\* reset when its transaction is rejected: the catch logs to the console
resetRejected(c) ==
  /\ Shown(c)
  /\ isModerator(c)
  /\ cl[c].view.state = "revealed"
  /\ cl' = [cl EXCEPT ![c].errorLog = "reset"]
  /\ UNCHANGED <<room, now, odPending, trigger>>

\* App.updateRoomState(newState): root transaction with retries, then the
\* narrow set / update of the state child of a room that exists; when all of
\* them are rejected the catch logs to the console
updateRoomState(c, newState) ==
  /\ MainView(c)
  /\ isModerator(c)
  /\ \E written \in BOOLEAN :
       /\ room' = IF written /\ Exists(room)
                  THEN [room EXCEPT !.state = newState] ELSE room
       /\ cl' = [cl EXCEPT ![c].errorLog = IF written THEN @ ELSE "state"]
  /\ UNCHANGED <<now, odPending>>
  /\ trigger' = onWrite(trigger, room, room')

\* kickParticipant: the flag kicks/<u> (transaction, then narrow set), and a
\* timer of 200 ms that is started whether or not the flag was written
kickParticipant(c, u) ==
  /\ MainView(c)
  /\ isModerator(c)
  /\ u # uid(c)
  /\ PExists(room, u)
  /\ \E ok \in BOOLEAN :
       room' = IF ok THEN [room EXCEPT !.kicks[u] = TRUE] ELSE room
  /\ cl' = [cl EXCEPT ![c].kickTimers = @ \union {u}]
  /\ UNCHANGED <<now, odPending>>
  /\ trigger' = onWrite(trigger, room, room')

\* kickParticipant, the timer: remove(participants/<u>) by the moderator's
\* tab; the store may reject it
KickRemove(c, u) ==
  /\ u \in cl[c].kickTimers
  /\ \E ok \in BOOLEAN :
       room' = IF ok THEN RemovePart(room, u) ELSE room
  /\ cl' = [cl EXCEPT ![c].kickTimers = @ \ {u}]
  /\ UNCHANGED <<now, odPending>>
  /\ trigger' = onWrite(trigger, room, room')

\* the toast is hidden after 3 seconds
ToastExpire(c) ==
  /\ cl[c].toast # None
  /\ cl' = [cl EXCEPT ![c].toast = None]
  /\ UNCHANGED <<room, now, odPending, trigger>>

\* story input: narrow write of rooms/<id>/story
setStory(c, story) ==
  /\ MainView(c)
  /\ room' = [room EXCEPT !.story = story]
  /\ UNCHANGED <<now, cl, odPending>>
  /\ trigger' = onWrite(trigger, room, room')

\* heartbeat interval started by joinRoom; it outlives the component
Heartbeat(c) ==
  /\ cl[c].hb
  /\ room' = SetField(room, uid(c), "lastSeen", now)
  /\ UNCHANGED <<now, cl, odPending>>
  /\ trigger' = onWrite(trigger, room, room')

\* ensureClear and the post-join effect (immediate run and delayed re-runs)
ClearFlags(c) ==
  /\ cl[c].clears
  /\ room' = SetField(SetField(room, uid(c), "disconnectedAt", "false"),
                      uid(c), "disconnectedSession", None)
  /\ \E more \in BOOLEAN : cl' = [cl EXCEPT ![c].clears = more]
  /\ UNCHANGED <<now, odPending>>
  /\ trigger' = onWrite(trigger, room, room')

\* the record the auto-rejoin effect writes
AutoRejoinRecord(c) ==
  [NoRec EXCEPT !.name = displayName[c], !.joinedAt = now, !.disconnectedAt = "false"]

\* faulty variant of AutoRejoinWrites: the effect writes only over a record
AutoRejoinWrites_Present(l) == l.joined /\ l.view.mine /\ ~l.leftFlag

\* faulty variant of AutoRejoinWrites: the left flag is not consulted
AutoRejoinWrites_NoFlag(l) == l.joined /\ ~l.view.mine

\* does the auto-rejoin effect write? (joined, own record absent, no left flag)
AutoRejoinWrites(l) == l.joined /\ ~l.view.mine /\ ~l.leftFlag

\* auto-rejoin effect, run after a render that changed one of its inputs
AutoRejoin(c) ==
  /\ cl[c].mounted
  /\ cl[c].arPending
  /\ room' = IF AutoRejoinWrites(cl[c])
             THEN [room EXCEPT !.participants[uid(c)] = AutoRejoinRecord(c)]
             ELSE room
  /\ cl' = [cl EXCEPT ![c].arPending = FALSE]
  /\ UNCHANGED <<now, odPending>>
  /\ trigger' = onWrite(trigger, room, room')

\* Object.entries order of the participants node (keys sorted)
KeyOrder == <<"a1", "a2", "b1">>

Pos(u) == CHOOSE i \in 1..Len(KeyOrder) : KeyOrder[i] = u

\* pdata.lastSeen || pdata.joinedAt || 0
Score(p) == IF p.lastSeen # 0 THEN p.lastSeen ELSE p.joinedAt

\* dedupe key of the visible list: clientId || name || uid
VisibleKey(r, u) ==
  IF r.participants[u].clientId # None THEN r.participants[u].clientId
  ELSE IF r.participants[u].name # None THEN r.participants[u].name
  ELSE u

\* faulty variant of Visible: records carrying leftAt are listed too
Visible_KeepLeft(r) ==
  LET raw == {u \in Uids : PExists(r, u)}
      sc(u) == Score(r.participants[u])
  IN {u \in raw :
        \A o \in raw \ {u} :
          VisibleKey(r, o) = VisibleKey(r, u) =>
            sc(o) < sc(u) \/ (sc(o) = sc(u) /\ Pos(o) < Pos(u))}

\* participants (the visible list): records without leftAt, one per dedupe
\* key, the highest score winning and the later key of the snapshot on a tie
Visible(r) ==
  LET raw == {u \in Uids : PExists(r, u) /\ r.participants[u].leftAt = 0}
      sc(u) == Score(r.participants[u])
  IN {u \in raw :
        \A o \in raw \ {u} :
          VisibleKey(r, o) = VisibleKey(r, u) =>
            sc(o) < sc(u) \/ (sc(o) = sc(u) /\ Pos(o) < Pos(u))}

\* participant card: the offline threshold
OFFLINE_MS == HEARTBEAT_MS * OFFLINE_MULTIPLIER

\* faulty variant of offline: the disconnected flag is consulted first
offline_FlagFirst(p, isMe, isOffline, t) ==
  IF isMe THEN isOffline
  ELSE IF p.disconnectedAt = "true" THEN TRUE
  ELSE IF p.lastSeen # 0 THEN (t - p.lastSeen) > OFFLINE_MS
  ELSE FALSE

\* participant card: is the participant shown offline?  isMe: the card is the
\* observer's own; isOffline: the observer's browser reports no connectivity;
\* t: Date.now() at render time
offline(p, isMe, isOffline, t) ==
  IF isMe THEN isOffline
  ELSE IF p.lastSeen # 0 THEN (t - p.lastSeen) > OFFLINE_MS
  ELSE IF p.disconnectedAt = "true" THEN TRUE
  ELSE FALSE

\* the clients showing the room view
Observers == {c \in Clients : cl[c].mounted /\ cl[c].view.has}

\* votes: the votes of the visible list, as a function of their uids
votes(r) == [u \in {v \in Visible(r) : r.participants[v].vote # None} |->
               r.participants[u].vote]

NaN == -1

\* parseFloat of a card label
parseFloat(s) ==
  CASE s = "0" -> 0 [] s = "1" -> 1 [] s = "2" -> 2 [] s = "3" -> 3
    [] s = "5" -> 5 [] s = "8" -> 8 [] s = "13" -> 13 [] s = "21" -> 21
    [] s = "34" -> 34 [] s = "55" -> 55 [] s = "89" -> 89 [] OTHER -> NaN

Abs(x) == IF x < 0 THEN -x ELSE x

\* numericCards: the cards whose label parses to a number
numericCards == SelectSeq(CARDS, LAMBDA c : parseFloat(c) # NaN)

RECURSIVE SumVotes(_, _)
\* numericVotes.reduce((a, b) => a + b, 0), over the voters S of vs
SumVotes(vs, S) ==
  IF S = {} THEN 0
  ELSE LET u == CHOOSE x \in S : TRUE
       IN parseFloat(vs[u]) + SumVotes(vs, S \ {u})

RECURSIVE Nearest_TieLower(_, _, _, _)
\* faulty variant of Nearest: on equal distance the card chosen first is kept
Nearest_TieLower(i, chosen, sum, n) ==
  IF i > Len(numericCards) THEN chosen
  ELSE LET c == numericCards[i]
           diff == Abs(parseFloat(c) * n - sum)
           minDiff == Abs(parseFloat(chosen) * n - sum)
       IN Nearest_TieLower(i + 1, IF diff < minDiff THEN c ELSE chosen, sum, n)

RECURSIVE Nearest(_, _, _, _)
\* the forEach of averageVote from card i on: chosen is the card kept so far;
\* distances to the average sum / n are compared multiplied by n
Nearest(i, chosen, sum, n) ==
  IF i > Len(numericCards) THEN chosen
  ELSE LET c == numericCards[i]
           diff == Abs(parseFloat(c) * n - sum)
           minDiff == Abs(parseFloat(chosen) * n - sum)
       IN Nearest(i + 1,
                  IF diff < minDiff THEN c
                  ELSE IF diff = minDiff /\ parseFloat(c) > parseFloat(chosen) THEN c
                  ELSE chosen,
                  sum, n)

\* averageVote(...).rounded for the votes vs; None for null
averageVote(vs) ==
  LET S == {u \in DOMAIN vs : parseFloat(vs[u]) # NaN}
  IN IF S = {} THEN None
     ELSE Nearest(1, numericCards[1], SumVotes(vs, S), Cardinality(S))

\* -------------------------------------------------------------- Room: Leave

\* faulty variant of LeaveClick: the participant branch starts by removing
\* the record, with its deferred writes still registered
LeaveClick_RemoveFirst(c) ==
  /\ MainView(c)
  /\ room' = IF isModerator(c) THEN NoRoom ELSE RemovePart(room, uid(c))
  /\ cl' = [cl EXCEPT ![c].leftFlag = TRUE, ![c].joined = FALSE,
                      ![c].pc = IF isModerator(c) THEN "leave_mod" ELSE "leave_rm",
                      ![c].removed = IF isModerator(c) THEN None ELSE "false"]
  /\ UNCHANGED <<now, odPending>>
  /\ trigger' = onWrite(trigger, room, room')

\* Leave button, up to its first write: the left flag is set, setJoined(false);
\* the moderator branch issues remove(roomRef), the participant branch cancels
\* its onDisconnect and writes leftAt
LeaveClick(c) ==
  /\ MainView(c)
  /\ room' = IF isModerator(c) THEN NoRoom ELSE SetField(room, uid(c), "leftAt", now)
  /\ cl' = [cl EXCEPT ![c].leftFlag = TRUE, ![c].joined = FALSE,
                      ![c].pc = IF isModerator(c) THEN "leave_mod" ELSE "leave_rm",
                      ![c].odReg = IF isModerator(c) THEN @ ELSE 0,
                      ![c].removed = IF isModerator(c) THEN None ELSE "false"]
  /\ UNCHANGED <<now, odPending>>
  /\ trigger' = onWrite(trigger, room, room')

\* moderator branch: remove(participantsRef)
LeaveModParts(c) ==
  /\ cl[c].pc = "leave_mod"
  /\ room' = [room EXCEPT !.participants = NoParts]
  /\ cl' = [cl EXCEPT ![c].pc = "leave_fin"]
  /\ UNCHANGED <<now, odPending>>
  /\ trigger' = onWrite(trigger, room, room')

\* faulty variant of LeaveRemove: remove(target) is retried until it succeeds
LeaveRemove_Endless(c) ==
  /\ cl[c].pc = "leave_rm"
  /\ \E ok \in BOOLEAN :
       /\ room' = IF ok THEN RemovePart(room, uid(c)) ELSE room
       /\ cl' = [cl EXCEPT ![c] =
                   IF ~ok
                   THEN [@ EXCEPT !.attempt = (@ + 1) % LEAVE_ATTEMPTS]
                   ELSE [@ EXCEPT !.pc = "leave_clean", !.attempt = 0,
                                  !.removed = "true"]]
  /\ UNCHANGED <<now, odPending>>
  /\ trigger' = onWrite(trigger, room, room')

\* participant branch: remove(target) and its read-back, LEAVE_ATTEMPTS times
\* with a pause after each rejected attempt, then the fallback transaction;
\* when every removal is rejected the record is marked once more (leftAt,
\* leftByClient, leaveError) and polled five times
LeaveRemove(c) ==
  /\ cl[c].pc = "leave_rm"
  /\ \E ok \in BOOLEAN :
       /\ room' = IF ok THEN RemovePart(room, uid(c))
                  ELSE IF cl[c].attempt + 1 < LEAVE_ATTEMPTS THEN room
                  ELSE SetField(room, uid(c), "leftAt", now)
       /\ cl' = [cl EXCEPT ![c] =
                   IF ~ok /\ cl[c].attempt + 1 < LEAVE_ATTEMPTS
                   THEN [@ EXCEPT !.attempt = @ + 1]
                   ELSE [@ EXCEPT !.pc = "leave_clean", !.attempt = 0,
                                  !.removed = IF ok THEN "true" ELSE "false"]]
  /\ UNCHANGED <<now, odPending>>
  /\ trigger' = onWrite(trigger, room, room')

\* participant branch: aggressive cleanup, the root transaction and the narrow
\* removes; a rejected transaction ends the cleanup in its catch
LeaveCleanup(c) ==
  /\ cl[c].pc = "leave_clean"
  /\ \E ok \in BOOLEAN :
       /\ room' = IF ok THEN ForgetUid(room, uid(c)) ELSE room
       /\ cl' = [cl EXCEPT ![c].pc = IF ok THEN "leave_unmark" ELSE "leave_fin"]
  /\ UNCHANGED <<now, odPending>>
  /\ trigger' = onWrite(trigger, room, room')

\* participant branch: aggressive cleanup, the last update
\* {leftAt: null, leftByClient: null, leaveError: null}
LeaveUnmark(c) ==
  /\ cl[c].pc = "leave_unmark"
  /\ room' = SetField(room, uid(c), "leftAt", 0)
  /\ cl' = [cl EXCEPT ![c].pc = "leave_fin"]
  /\ UNCHANGED <<now, odPending>>
  /\ trigger' = onWrite(trigger, room, room')

\* both branches, the end of the handler: clearInterval, setJoined(false),
\* left flag, onLeave(); the navigation is scheduled 100 ms later
LeaveFinish(c) ==
  /\ cl[c].pc = "leave_fin"
  /\ cl' = [cl EXCEPT ![c] = [Unmounted(@) EXCEPT !.pc = "leave_nav", !.hb = FALSE,
                                                  !.joined = FALSE, !.leftFlag = TRUE,
                                                  !.removed = None, !.gone = uid(c)]]
  /\ UNCHANGED <<room, now, odPending>>
  /\ trigger' = onWrite(trigger, room, room')

\* window.location.href = "/": the page is loaded afresh
LeaveNavigate(c) ==
  /\ cl[c].pc = "leave_nav"
  /\ cl' = [cl EXCEPT ![c] = Reloaded(@, @.idx)]
  /\ odPending' = odPending \union Deferred(c)
  /\ UNCHANGED <<room, now>>
  /\ trigger' = onWrite(trigger, room, room')

\* ----------------------------------------------------------- Room: joinRoom

nameMatches(p, dname) == p.name # None /\ p.name = dname

\* pre-scan: may this record of another uid be preserved (and removed)?
PreserveCandidate(p, cid, dname, t) ==
  \/ p.clientId # None /\ p.clientId = cid
  \/ nameMatches(p, dname) /\ p.disconnectedAt = "true"
  \/ nameMatches(p, dname) /\ (Score(p) = 0 \/ t - Score(p) > STALE_MS)

\* pre-scan: the candidate with the highest score, the first one on a tie
PreservedUid(r, u, cid, dname, t) ==
  LET C == {o \in Uids \ {u} :
              PExists(r, o) /\ PreserveCandidate(r.participants[o], cid, dname, t)}
  IN IF C = {} THEN None
     ELSE CHOOSE o \in C : \A o2 \in C :
            \/ Score(r.participants[o]) > Score(r.participants[o2])
            \/ /\ Score(r.participants[o]) = Score(r.participants[o2])
               /\ Pos(o) <= Pos(o2)

\* base: the participant payload, with the preserved record's vote and extras
Base(c, pr, nowP) ==
  [NoRec EXCEPT !.name = displayName[c], !.vote = pr.vote, !.joinedAt = nowP,
                !.disconnectedAt = "false", !.clientId = c,
                !.disconnectedSession = pr.disconnectedSession,
                !.disconnected = pr.disconnected,
                !.revealOffline = pr.revealOffline, !.leftAt = pr.leftAt]

\* Object.assign({}, existing, base): base's own keys win, null vote included
Merge(existing, base) ==
  [base EXCEPT
     !.lastSeen = existing.lastSeen,
     !.disconnectedSession = IF @ # None THEN @ ELSE existing.disconnectedSession,
     !.disconnected = IF @ # None THEN @ ELSE existing.disconnected,
     !.revealOffline = IF @ # None THEN @ ELSE existing.revealOffline,
     !.leftAt = IF @ # 0 THEN @ ELSE existing.leftAt]

\* transactions: is this record of another uid a duplicate of the joiner?
IsDuplicate(p, cid, dname, sid, t) ==
  \/ p.clientId # None /\ p.clientId = cid
  \/ /\ nameMatches(p, dname)
     /\ p.disconnectedAt = "true"
     /\ (p.disconnectedSession = None \/ p.disconnectedSession # sid)
  \/ nameMatches(p, dname) /\ (p.lastSeen = 0 \/ t - p.lastSeen > CLEAN_STALE_MS_T)

\* doCleanup (narrow removes): the same rules without the session check
IsDuplicateNarrow(p, cid, dname, t) ==
  \/ p.clientId # None /\ p.clientId = cid
  \/ nameMatches(p, dname) /\ p.disconnectedAt = "true"
  \/ nameMatches(p, dname) /\ (p.lastSeen = 0 \/ t - p.lastSeen > CLEAN_STALE_MS_T)

\* rejoin transaction on the room root
RejoinUpdater(current, u, base, prUid, cid, dname, sid, nowP) ==
  IF ~Exists(current) THEN current
  ELSE LET existing == current.participants[u]
           me == [Merge(existing, base) EXCEPT
                    !.joinedAt = IF existing.joinedAt # 0 THEN existing.joinedAt ELSE nowP,
                    !.lastSeen = nowP,
                    !.disconnectedAt = "false",
                    !.disconnectedSession = None]
           parts == [current.participants EXCEPT ![u] = me]
       IN [current EXCEPT !.participants =
             [o \in Uids |->
                IF o # u /\ (o = prUid \/ (parts[o] # NoRec /\ IsDuplicate(parts[o], cid, dname, sid, nowP)))
                THEN NoRec ELSE parts[o]]]

\* fallback after a failed rejoin transaction: narrow removes, set(pRef, base)
FallbackWrite(r, u, base, cid) ==
  [r EXCEPT !.participants =
     [o \in Uids |->
        IF o = u THEN [base EXCEPT !.disconnectedAt = "false"]
        ELSE IF @[o].clientId # None /\ @[o].clientId = cid THEN NoRec ELSE @[o]]]

\* transactional cleanup on the room root
CleanupUpdater(current, u, cid, dname, sid, nowT) ==
  IF ~Exists(current) THEN current
  ELSE LET existing == current.participants[u]
           me == [existing EXCEPT
                    !.name = dname, !.clientId = cid, !.lastSeen = nowT,
                    !.disconnected = "false",
                    !.joinedAt = IF existing.joinedAt # 0 THEN existing.joinedAt ELSE nowT]
           parts == [current.participants EXCEPT ![u] = me]
       IN [current EXCEPT !.participants =
             [o \in Uids |->
                IF o # u /\ parts[o] # NoRec /\ IsDuplicate(parts[o], cid, dname, sid, nowT)
                THEN NoRec ELSE parts[o]]]

\* post-join transaction on the participant node
PostJoinUpdater(cur, cid, dname, t) ==
  IF cur = NoRec
  THEN [NoRec EXCEPT !.name = dname, !.joinedAt = t, !.lastSeen = t,
                     !.disconnectedAt = "false", !.clientId = cid]
  ELSE [cur EXCEPT !.leftAt = 0, !.name = dname, !.clientId = cid,
                   !.disconnectedAt = "false", !.lastSeen = t]

\* joinRoom is entered and runs to its first read, get(roomRef): a missing
\* room ends in onLeave(); a rejected read is only logged and the join goes on
joinRoom(c) ==
  /\ cl[c].mounted
  /\ cl[c].pc = "idle"
  /\ \E ok \in BOOLEAN :
       cl' = [cl EXCEPT ![c] =
                IF ok /\ ~Exists(room) THEN Unmounted(@)
                ELSE [@ EXCEPT !.jmod = isModerator(c),
                               !.opMissing = ~Exists(room),
                               !.pc = IF ok /\ room.owner = None
                                      THEN "join_owner" ELSE "join_scan"]]
  /\ UNCHANGED <<room, now, odPending>>
  /\ trigger' = onWrite(trigger, room, room')

\* transaction on the owner child
JoinOwnerTx(c) ==
  /\ cl[c].pc = "join_owner"
  /\ room' = OwnerChildUpdater(room, uid(c))
  /\ cl' = [cl EXCEPT ![c].pc = "join_scan"]
  /\ UNCHANGED <<now, odPending>>
  /\ trigger' = onWrite(trigger, room, room')

\* preserve + dedupe pre-scan: get(participants), remove(preservedUid)
JoinScan(c) ==
  /\ cl[c].pc = "join_scan"
  /\ LET p == PreservedUid(room, uid(c), c, displayName[c], now)
     IN /\ room' = IF p = None THEN room ELSE RemovePart(room, p)
        /\ cl' = [cl EXCEPT ![c].pc = "join_tx", ![c].prUid = p,
                            ![c].pr = IF p = None THEN NoRec ELSE room.participants[p]]
  /\ UNCHANGED <<now, odPending>>
  /\ trigger' = onWrite(trigger, room, room')

\* rejoin transaction, or (when it does not commit) the direct-set fallback
JoinTx(c) ==
  /\ cl[c].pc = "join_tx"
  /\ \E ok \in BOOLEAN :
       room' = IF ok
               THEN RejoinUpdater(room, uid(c), Base(c, cl[c].pr, now), cl[c].prUid,
                                  c, displayName[c], sessionId(c), now)
               ELSE FallbackWrite(room, uid(c), Base(c, cl[c].pr, now), c)
  /\ cl' = [cl EXCEPT ![c].pc = "join_presence", ![c].prUid = None, ![c].pr = NoRec]
  /\ UNCHANGED <<now, odPending>>
  /\ trigger' = onWrite(trigger, room, room')

\* set disconnectedAt=false, lastSeen=now, disconnected=false; ensureClear and
\* doCleanup are started
JoinPresence(c) ==
  /\ cl[c].pc = "join_presence"
  /\ room' = SetField(SetField(SetField(room, uid(c), "disconnectedAt", "false"),
                               uid(c), "lastSeen", now),
                      uid(c), "disconnected", "false")
  /\ cl' = [cl EXCEPT ![c].pc = "join_cleanup", ![c].clears = TRUE, ![c].cleanups = TRUE]
  /\ UNCHANGED <<now, odPending>>
  /\ trigger' = onWrite(trigger, room, room')

\* doCleanup: get(participants), then narrow removes
DoCleanup(c) ==
  /\ cl[c].cleanups
  /\ room' = [room EXCEPT !.participants =
                [o \in Uids |->
                   IF o # uid(c) /\ @[o] # NoRec
                      /\ IsDuplicateNarrow(@[o], c, displayName[c], now)
                   THEN NoRec ELSE @[o]]]
  /\ \E more \in BOOLEAN : cl' = [cl EXCEPT ![c].cleanups = more]
  /\ UNCHANGED <<now, odPending>>
  /\ trigger' = onWrite(trigger, room, room')

\* root cleanup transaction; heartbeat started; onDisconnect cancelled and
\* (unless moderator) registered; setJoined(true); left flag removed
JoinCleanupTx(c) ==
  /\ cl[c].pc = "join_cleanup"
  /\ room' = CleanupUpdater(room, uid(c), c, displayName[c], sessionId(c), now)
  /\ cl' = [cl EXCEPT ![c].pc = "join_post", ![c].hb = TRUE,
                      ![c].odReg = IF cl[c].jmod THEN 0 ELSE now,
                      ![c].joined = TRUE, ![c].leftFlag = FALSE,
                      ![c].clears = TRUE, ![c].arPending = TRUE]
  /\ UNCHANGED <<now, odPending>>
  /\ trigger' = onWrite(trigger, room, room')

\* post-join transaction on the participant node
JoinPostTx(c) ==
  /\ cl[c].pc = "join_post"
  /\ room' = [room EXCEPT !.participants[uid(c)] =
                PostJoinUpdater(@, c, displayName[c], now)]
  /\ cl' = [cl EXCEPT ![c].pc = "idle", ![c].jmod = FALSE, ![c].opMissing = FALSE]
  /\ UNCHANGED <<now, odPending>>
  /\ trigger' = onWrite(trigger, room, room')

\* ------------------------------------------- page unload, connection, server

\* modUnload (beforeunload of a tab whose moderator effect is active)
ModUnloadRemoves(c, r) == cl[c].mounted /\ isModerator(c) /\ r.owner = uid(c)

\* page unload and reload: beforeunload handlers, timers die, new sessionId,
\* possibly a reissued identity; sessionStorage and localStorage survive
Reload(c) ==
  /\ cl[c].load < MaxLoads
  /\ \E ran \in BOOLEAN :
       room' = IF ran /\ ModUnloadRemoves(c, room) THEN NoRoom ELSE room
  /\ \E newId \in BOOLEAN :
       cl' = [cl EXCEPT ![c] =
                Reloaded(@, IF newId /\ cl[c].idx < Len(Identities[c])
                            THEN cl[c].idx + 1 ELSE cl[c].idx)]
  /\ odPending' = odPending \union Deferred(c)
  /\ UNCHANGED now
  /\ trigger' = onWrite(trigger, room, room')

\* the connection drops without an unload; the tab keeps running
Disconnect(c) ==
  /\ cl[c].odReg # 0
  /\ odPending' = odPending \union Deferred(c)
  /\ cl' = [cl EXCEPT ![c].odReg = 0]
  /\ UNCHANGED <<room, now>>
  /\ trigger' = onWrite(trigger, room, room')

\* the server performs the deferred writes of a severed connection
ServerFire(e) ==
  /\ e \in odPending
  /\ room' = SetField(SetField(SetField(room, e.uid, "disconnectedAt", "true"),
                               e.uid, "disconnectedSession", e.sess),
                      e.uid, "lastSeen", e.at)
  /\ odPending' = odPending \ {e}
  /\ UNCHANGED <<now, cl>>
  /\ trigger' = onWrite(trigger, room, room')

\* faulty variant of removeParticipantOnLeftUpdate: only the marker is removed
removeParticipantOnLeftUpdate_MarkerOnly(r, u, leftAt, removed, written, t) ==
  IF leftAt = 0 THEN r ELSE SetField(r, u, "leftAt", 0)

\* removeParticipantOnLeft, the value it leaves: nothing on a falsy leftAt;
\* else participantRef.remove(), and when that is rejected the tombstone
\* (whose write may be rejected too)
removeParticipantOnLeftUpdate(r, u, leftAt, removed, written, t) ==
  IF leftAt = 0 THEN r
  ELSE IF removed THEN RemovePart(r, u)
  ELSE IF written
       THEN [r EXCEPT !.removedParticipants[u] = [removedAt |-> t, leftAt |-> leftAt]]
       ELSE r

\* firebase deploy --only functions:removeParticipantOnLeft
Deploy ==
  /\ ~trigger.deployed
  /\ trigger' = [trigger EXCEPT !.deployed = TRUE]
  /\ UNCHANGED <<room, now, cl, odPending>>

\* one invocation of the Cloud Function, with admin privileges
removeParticipantOnLeft(e) ==
  /\ e \in trigger.events
  /\ \E removed, written \in BOOLEAN :
       room' = removeParticipantOnLeftUpdate(room, e.uid, e.leftAt, removed, written, now)
  /\ trigger' = onWrite([trigger EXCEPT !.events = @ \ {e}], room, room')
  /\ UNCHANGED <<now, cl, odPending>>

Tick ==
  /\ now < MaxTicks * TickMs
  /\ now' = now + TickMs
  /\ UNCHANGED <<room, cl, odPending>>
  /\ trigger' = onWrite(trigger, room, room')

\* App (entry screen)
AppStep(c) ==
  \/ RandomCode(c)
  \/ JoinCreateRoom(c)
  \/ InviteJoin(c)
  \/ AppStateGet(c)
  \/ AppStateTx(c)

\* Room: connect, snapshot listener, display-name effect
ConnectStep(c) ==
  \/ InitGet(c)
  \/ InitTx(c)
  \/ Observe(c)
  \/ NameWrite(c)

\* Room: roomMissing panel buttons
PanelStep(c) ==
  \/ PanelRetry(c)
  \/ PanelCreate(c)

\* Room: voting round
RoundStep(c) ==
  \/ \E v \in VoteInputs : castVote(c, v)
  \/ reveal(c)
  \/ reset(c)

StoryStep(c) == \E t \in {"", "s"} : setStory(c, t)

\* Room: joinRoom, one awaited operation at a time
JoinStep(c) ==
  \/ joinRoom(c)
  \/ JoinOwnerTx(c)
  \/ JoinScan(c)
  \/ JoinTx(c)
  \/ JoinPresence(c)
  \/ JoinCleanupTx(c)
  \/ JoinPostTx(c)

\* Room: Leave button
LeaveStep(c) ==
  \/ LeaveClick(c)
  \/ LeaveModParts(c)
  \/ LeaveRemove(c)
  \/ LeaveCleanup(c)
  \/ LeaveUnmark(c)
  \/ LeaveFinish(c)
  \/ LeaveNavigate(c)

\* every operation of the program
Next ==
  \/ \E c \in Clients :
       \/ AppInit(c)
       \/ UrlEffect(c)
       \/ AppStep(c)
       \/ ConnectStep(c)
       \/ PanelStep(c)
       \/ RoundStep(c)
       \/ revealRejected(c)
       \/ resetRejected(c)
       \/ \E st \in {"voting", "revealed"} : updateRoomState(c, st)
       \/ ToastExpire(c)
       \/ \E u \in Uids : kickParticipant(c, u) \/ KickRemove(c, u)
       \/ StoryStep(c)
       \/ Heartbeat(c)
       \/ ClearFlags(c)
       \/ DoCleanup(c)
       \/ AutoRejoin(c)
       \/ JoinStep(c)
       \/ LeaveStep(c)
       \/ Reload(c)
       \/ Disconnect(c)
  \/ \E e \in odPending : ServerFire(e)
  \/ Deploy
  \/ \E e \in trigger.events : removeParticipantOnLeft(e)
  \/ Tick

Spec == Init /\ [][Next]_vars

\* Room lifecycle and ownership: create, connect, the ownership claims of
\* initRoom and joinRoom, Leave, page unload.  joinRoom is followed up to its
\* claim on the owner child.
NextLife ==
  \/ \E c \in Clients :
       \/ JoinCreateRoom(c)
       \/ InviteJoin(c)
       \/ ConnectStep(c)
  \/ LeaveStep("A")
  \/ RandomCode("A")
  \/ joinRoom("A")
  \/ JoinOwnerTx("A")
  \/ Reload("A")

SpecLife == Init /\ [][NextLife]_vars

\* Voting rounds: create, connect, vote, reveal, reset, and the entry screen's
\* initial-state transaction
NextRound ==
  \E c \in Clients :
    \/ JoinCreateRoom(c)
    \/ InviteJoin(c)
    \/ AppStateGet(c)
    \/ AppStateTx(c)
    \/ ConnectStep(c)
    \/ RoundStep(c)

SpecRound == Init /\ [][NextRound]_vars

\* Joining: B creates the room; A connects and joins, repeatedly, across page
\* loads and reissued identities, with its timers and deferred writes
NextJoin ==
  \/ JoinCreateRoom("B")
  \/ InviteJoin("A")
  \/ ConnectStep("A")
  \/ JoinStep("A")
  \/ Heartbeat("A")
  \/ ClearFlags("A")
  \/ DoCleanup("A")
  \/ AutoRejoin("A")
  \/ Reload("A")
  \/ \E e \in odPending : ServerFire(e)

SpecJoin == Init /\ [][NextJoin]_vars

\* the invitation link of a room that exists is opened
InviteExisting(c) == Exists(room) /\ InviteJoin(c)

\* Rejoining: B creates the room; A arrives by its invitation link and joins,
\* repeatedly, across page loads and reissued identities, while time passes
NextRejoin ==
  \/ JoinCreateRoom("B")
  \/ InviteExisting("A")
  \/ ConnectStep("A")
  \/ joinRoom("A")
  \/ JoinScan("A")
  \/ JoinTx("A")
  \/ JoinPresence("A")
  \/ JoinCleanupTx("A")
  \/ JoinPostTx("A")
  \/ Heartbeat("A")
  \/ ClearFlags("A")
  \/ DoCleanup("A")
  \/ AutoRejoin("A")
  \/ Reload("A")
  \/ \E e \in odPending : ServerFire(e)
  \/ Tick

SpecRejoin == Init /\ [][NextRejoin]_vars

\* Leaving: B creates the room; A connects, joins, leaves and comes back, with
\* its heartbeat and auto-rejoin effect, across page loads
NextLeave ==
  \/ JoinCreateRoom("B")
  \/ InviteJoin("A")
  \/ ConnectStep("A")
  \/ JoinStep("A")
  \/ LeaveStep("A")
  \/ Heartbeat("A")
  \/ AutoRejoin("A")
  \/ Reload("A")

SpecLeave == Init /\ [][NextLeave]_vars

\* After Leave: either tab creates the room; A enters it, is listed, joins,
\* leaves and comes back, with the timers it has started (heartbeat, delayed
\* presence clears) and its auto-rejoin effect
NextGone ==
  \/ \E c \in Clients : JoinCreateRoom(c)
  \/ InviteExisting("A")
  \/ ConnectStep("A")
  \/ JoinStep("A")
  \/ LeaveStep("A")
  \/ Heartbeat("A")
  \/ ClearFlags("A")
  \/ AutoRejoin("A")

SpecGone == Init /\ [][NextGone]_vars

\* Closing: A creates the room and B enters it by the invitation link; A
\* leaves.  The store delivers the value of the room to every listener
\* attached to it (onValue), hence the fairness on Observe.
NextClose ==
  \/ JoinCreateRoom("A")
  \/ InviteExisting("B")
  \/ \E c \in Clients : ConnectStep(c) \/ ClearFlags(c)
  \/ LeaveStep("A")

SpecClose ==
  Init /\ [][NextClose]_vars /\ \A c \in Clients : WF_vars(Observe(c))

\* Presence: B creates the room; A arrives by its invitation link and joins,
\* across page loads and reissued identities, with its heartbeat and the
\* deferred writes of its severed connections, while time passes
NextPresence ==
  \/ JoinCreateRoom("B")
  \/ InviteExisting("A")
  \/ InitGet("A")
  \/ InitTx("A")
  \/ Observe("A")
  \/ joinRoom("A")
  \/ JoinScan("A")
  \/ JoinTx("A")
  \/ JoinPresence("A")
  \/ JoinCleanupTx("A")
  \/ JoinPostTx("A")
  \/ Heartbeat("A")
  \/ Reload("A")
  \/ \E e \in odPending : ServerFire(e)
  \/ Tick

SpecPresence == Init /\ [][NextPresence]_vars

\* Aggregate: B creates the room, A enters it (under two identities, over a
\* page load), and the tabs pick cards; no names are written, so that every
\* record is listed
NextAverage ==
  \/ JoinCreateRoom("B")
  \/ InviteExisting("A")
  \/ \E c \in Clients :
       \/ InitGet(c)
       \/ InitTx(c)
       \/ Observe(c)
       \/ \E v \in AverageInputs : castVote(c, v)
  \/ Reload("A")

SpecAverage == Init /\ [][NextAverage]_vars

\* Deferred writes: either tab creates the room; A enters it, joins and votes
\* across page loads; its connection may drop while the tab keeps running, and
\* the server performs the deferred writes of its severed connections
NextDeferred ==
  \/ \E c \in Clients : JoinCreateRoom(c)
  \/ InviteExisting("A")
  \/ ConnectStep("A")
  \/ JoinStep("A")
  \/ \E v \in VoteInputs : castVote("A", v)
  \/ Heartbeat("A")
  \/ Disconnect("A")
  \/ Reload("A")
  \/ \E e \in odPending : ServerFire(e)

SpecDeferred == Init /\ [][NextDeferred]_vars

\* Cleanup trigger: the Cloud Function is deployed; either tab creates the
\* room; A enters it, joins, leaves and comes back, and the function handles
\* the writes of leftAt
NextTrigger ==
  \/ Deploy
  \/ \E c \in Clients : JoinCreateRoom(c)
  \/ InviteExisting("A")
  \/ ConnectStep("A")
  \/ JoinStep("A")
  \/ LeaveStep("A")
  \/ \E e \in trigger.events : removeParticipantOnLeft(e)

SpecTrigger == Init /\ [][NextTrigger]_vars

\* Start-up: each tab is opened at an address and App reads the room code
NextUrl == \E c \in Clients : AppInit(c) \/ UrlEffect(c)

SpecUrl == InitUrl /\ [][NextUrl]_vars

\* Failing writes: A creates the room and moderates it, B enters it and
\* votes; A's reveal, reset and state write may be rejected
NextFail ==
  \/ JoinCreateRoom("A")
  \/ InviteExisting("B")
  \/ \E c \in Clients : ConnectStep(c)
  \/ \E v \in VoteInputs : castVote("B", v)
  \/ reveal("A")
  \/ reset("A")
  \/ revealRejected("A")
  \/ resetRejected("A")
  \/ \E st \in {"voting", "revealed"} : updateRoomState("A", st)
  \/ \E c \in Clients : ToastExpire(c)

SpecFail == Init /\ [][NextFail]_vars

\* Kicks: A creates the room and moderates it, B enters it (under two
\* identities, over a page load) and votes, with the delayed presence clears
\* its tab has started; A kicks
NextKick ==
  \/ JoinCreateRoom("A")
  \/ InviteExisting("B")
  \/ \E c \in Clients : ConnectStep(c)
  \/ \E v \in VoteInputs : castVote("B", v)
  \/ \E u \in Uids : kickParticipant("A", u) \/ KickRemove("A", u)
  \/ ClearFlags("B")
  \/ Reload("B")

SpecKick == Init /\ [][NextKick]_vars

\* Authority: either tab creates the room or enters it; the tabs reveal and
\* reset; A leaves and comes back
NextOwner ==
  \/ \E c \in Clients :
       \/ JoinCreateRoom(c)
       \/ InitGet(c)
       \/ InitTx(c)
       \/ Observe(c)
       \/ reveal(c)
       \/ reset(c)
  \/ NameWrite("B")
  \/ LeaveStep("A")

SpecOwner == Init /\ [][NextOwner]_vars

\* Duplicate rules: tab A joins a room that holds one record of another
\* identity under A's display name, taken from the records the rules tell
\* apart: marked disconnected or not, the marker scoped to no session, to
\* the session of A's page (sessionId is uuidv4() or, when that throws,
\* String(Date.now()): the ids of two pages can coincide) or to another one,
\* lastSeen missing or set; the marker of a record not yet marked is a
\* deferred write the server may perform at any time
InitDup ==
  /\ \E da \in {"true", "false"}, ds \in {None, "sA1", "sB1"}, ls \in {0, TickMs} :
       /\ odPending = IF da = "false" /\ ds # None
                      THEN {[uid |-> "b1", sess |-> ds, at |-> TickMs]} ELSE {}
       /\ room = [NoRoom EXCEPT
                    !.createdAt = TickMs, !.owner = "b1", !.state = "voting",
                    !.participants["b1"] =
                       [NoRec EXCEPT !.name = displayName["B"], !.clientId = "B",
                                     !.joinedAt = TickMs, !.lastSeen = ls,
                                     !.disconnectedAt = da,
                                     !.disconnectedSession = ds]]
  /\ now = TickMs
  /\ cl = [c \in Clients |->
             IF c = "A" THEN [InitClient EXCEPT !.mounted = TRUE] ELSE InitClient]
  /\ trigger = [deployed |-> FALSE, events |-> {}]

NextDup ==
  \/ joinRoom("A")
  \/ JoinScan("A")
  \/ JoinTx("A")
  \/ JoinPresence("A")
  \/ DoCleanup("A")
  \/ JoinCleanupTx("A")
  \/ JoinPostTx("A")
  \/ \E e \in odPending : ServerFire(e)
  \/ Tick

SpecDup == InitDup /\ [][NextDup]_vars

\* Leaving to the end: B creates the room; A enters it, is listed, joins and
\* leaves.  Every store operation the Leave handler awaits settles and every
\* pause it awaits ends, so a handler that can take a step takes it: hence the
\* fairness on the steps of Leave.
NextExit ==
  \/ JoinCreateRoom("B")
  \/ InviteExisting("A")
  \/ InitGet("A")
  \/ InitTx("A")
  \/ Observe("A")
  \/ NameWrite("A")
  \/ joinRoom("A")
  \/ JoinScan("A")
  \/ JoinTx("A")
  \/ JoinPresence("A")
  \/ JoinCleanupTx("A")
  \/ JoinPostTx("A")
  \/ LeaveClick("A")
  \/ LeaveRemove("A")
  \/ LeaveCleanup("A")
  \/ LeaveUnmark("A")
  \/ LeaveFinish("A")
  \/ LeaveNavigate("A")

SpecExit == Init /\ [][NextExit]_vars /\ WF_vars(LeaveStep("A"))

\* Self-healing: B creates the room and joins it; A, under the same display
\* name, enters the room and is listed; the reconciliation of B's join may
\* remove A's record.  React runs an effect after the render that changed
\* one of its inputs, hence the fairness on the auto-rejoin effect.
NextHeal ==
  \/ JoinCreateRoom("B")
  \/ InviteExisting("A")
  \/ \E c \in Clients : InitGet(c) \/ InitTx(c) \/ Observe(c) \/ NameWrite(c)
  \/ joinRoom("B")
  \/ JoinScan("B")
  \/ JoinTx("B")
  \/ JoinPresence("B")
  \/ DoCleanup("B")
  \/ JoinCleanupTx("B")
  \/ JoinPostTx("B")
  \/ AutoRejoin("A")

SpecHeal == Init /\ [][NextHeal]_vars /\ WF_vars(AutoRejoin("A"))

\* Same name on two devices: A creates the room and moderates it, B enters
\* it by the invitation link; both join under the display name they share
\* and keep their heartbeats; A reveals.  No page is reloaded, no connection
\* drops and no time passes: every heartbeat is fresh.
NextSame ==
  \/ JoinCreateRoom("A")
  \/ InviteExisting("B")
  \/ \E c \in Clients :
       \/ InitGet(c)
       \/ InitTx(c)
       \/ Observe(c)
       \/ joinRoom(c)
       \/ JoinScan(c)
       \/ JoinTx(c)
       \/ JoinPresence(c)
       \/ JoinCleanupTx(c)
       \/ JoinPostTx(c)
       \/ Heartbeat(c)
  \/ reveal("A")

SpecSame == Init /\ [][NextSame]_vars

\* ------------------------------------------------------------ properties

\* a step of c that commits (or fails to commit) an ownership claim
OwnerClaim(c) ==
  \/ InitTx(c)
  \/ JoinOwnerTx(c)
  \/ RandomCode(c)
  \/ JoinCreateRoom(c)

\* C1: whatever the interleaving of the ownership claims of several clients
\* (initRoom's transaction on the room root, joinRoom's on the owner child,
\* the create transaction), a claim that changes an ownerless room makes the
\* claiming identity the owner, and a claim that commits once an owner is set
\* leaves the room as it is: exactly one claiming identity ends up as owner.
C1_AtMostOneOwner ==
  [][\A c \in Clients :
       OwnerClaim(c) =>
         /\ room.owner # None => room' = room
         /\ room.owner = None /\ room' # room => room'.owner = uid(c)
         /\ room'.owner \in Uids \union {None}]_vars

\* C1: A read an ownerless room and is about to claim the owner child, and
\* another identity has won the ownership meanwhile
C1_Witness ==
  /\ cl["A"].pc = "join_owner"
  /\ room.owner \in Uids \ {uid("A")}

\* C2: once owner holds an identity, no step of any client replaces it by
\* another identity; it only goes away with the room.
C2_OwnerNeverReassigned ==
  [][room.owner # None => room'.owner \in {room.owner, None}]_vars

\* C2: the room is owned by B's identity and A's connect-time claim has run
C2_Witness ==
  /\ room.owner = "b1"
  /\ cl["A"].subscribed
  /\ cl["A"].view.owner = "b1"

\* C3: reveal changes the room only when the stored state is voting at commit
\* time, reset only when it is revealed, and the state of an existing room
\* changes only from voting to revealed by reveal and from revealed to voting
\* by reset.
C3_StateMachine ==
  [][/\ \A c \in Clients : reveal(c) /\ room.state # "voting" => room' = room
     /\ \A c \in Clients : reset(c) /\ room.state # "revealed" => room' = room
     /\ room.state # None /\ room'.state # None /\ room'.state # room.state =>
          \/ /\ room.state = "voting"
             /\ room'.state = "revealed"
             /\ \E c \in Clients : reveal(c)
          \/ /\ room.state = "revealed"
             /\ room'.state = "voting"
             /\ \E c \in Clients : reset(c)]_vars

\* C4: a reset committed on an existing room leaves every participant record
\* without a vote, the state voting, and a resetEvent other than the one before.
C4_ResetClearsVotes ==
  [][\A c \in Clients :
       reset(c) /\ Exists(room) =>
         /\ \A u \in Uids : room'.participants[u].vote = None
         /\ room'.state = "voting"
         /\ room'.resetEvent # room.resetEvent]_vars

\* C4: a reset has committed on a room in which a vote had been cast
C4_Witness ==
  /\ room.resetEvent > 0
  /\ room.state = "voting"
  /\ \E u \in Uids :
       /\ room.participants[u].disconnectedAt = "false"
       /\ room.participants[u].vote = None

\* C5: an absent room comes into existence only by a create transaction
\* (Random Code, Join / Create Room, the roomMissing panel's Create Room).
C5_CreatedOnlyExplicitly ==
  [][~Exists(room) /\ Exists(room') =>
       \E c \in Clients : RandomCode(c) \/ JoinCreateRoom(c) \/ PanelCreate(c)]_vars

\* C6: an existing room is removed only by the Leave of its owner.
C6_RemovedOnlyByOwnerLeave ==
  [][Exists(room) /\ ~Exists(room') =>
       \E c \in Clients : LeaveClick(c) /\ room.owner = uid(c)]_vars

\* C7: initRoom and joinRoom, run on a room code that does not exist, write
\* nothing to it: no step of theirs changes the absent room, and joinRoom
\* does not go on to its owner claim.
C7_NoWriteToMissingRoom ==
  [][\A c \in Clients :
       /\ (InitGet(c) \/ InitTx(c)) /\ ~Exists(room) => room' = room
       /\ JoinStep(c) /\ ~Exists(room) /\ (cl[c].pc = "idle" \/ cl[c].opMissing) =>
            /\ room' = room
            /\ cl'[c].pc # "join_owner"]_vars

\* C8: the create transaction of the entry screen, committed on an absent
\* room, yields owner = creator, state voting, no participants and an empty
\* story; committed on an existing room it changes nothing but an absent
\* owner, which becomes the caller.  The panel's create transaction yields the
\* same room on an absent code (story absent) and aborts on an existing room.
C8_CreateTransaction ==
  [][/\ \A c \in Clients :
          RandomCode(c) \/ JoinCreateRoom(c) =>
            IF ~Exists(room)
            THEN /\ room'.owner = uid(c)
                 /\ room'.state = "voting"
                 /\ room'.participants = NoParts
                 /\ room'.story = ""
            ELSE room' = [room EXCEPT !.owner = IF @ = None THEN uid(c) ELSE @]
     /\ \A u \in Uids :
          LET r == PanelCreateUpdater(room, u)
          IN IF Exists(room) THEN r = room
             ELSE /\ r.owner = u
                  /\ r.state = "voting"
                  /\ r.participants = NoParts
                  /\ r.story = None]_vars

\* C8: a create transaction has committed on an absent code, and a later one
\* on the room it made
C8_Witness ==
  /\ room.createdAt # 0
  /\ room.owner = "a1"
  /\ cl["B"].mounted
  /\ cl["B"].view.owner = "a1"
  /\ room.participants["a1"].name # None

\* the identities issued to a device
DeviceUids(c) == {Identities[c][i] : i \in 1..Len(Identities[c])}

\* C9: when a joinRoom of a device completes in a room made by a create
\* transaction, the visible participants hold at most one entry of that
\* device, whatever identities it has joined under.
C9_OneVisibleEntryPerDevice ==
  [][\A c \in Clients :
       JoinPostTx(c) /\ room.createdAt # 0 /\ room.owner # None =>
         Cardinality(Visible(room') \cap DeviceUids(c)) <= 1]_vars

\* C10: from the Leave click on, the left flag is set; while it is set, a run
\* of the auto-rejoin effect writes nothing, whatever the client has observed
\* of its own record; and only joinRoom removes the flag.
C10_LeaveSuppressesAutoRejoin ==
  [][\A c \in Clients :
       /\ LeaveClick(c) => cl'[c].leftFlag
       /\ AutoRejoin(c) /\ cl[c].leftFlag => room' = room
       /\ cl[c].leftFlag /\ ~cl'[c].leftFlag => JoinCleanupTx(c)]_vars

\* C10: A has left, has since observed that its record is absent while it
\* counts as joined, the auto-rejoin effect has run, and the record is absent
C10_Witness ==
  /\ cl["A"].leftFlag
  /\ cl["A"].mounted
  /\ cl["A"].joined
  /\ cl["A"].view.has
  /\ ~cl["A"].view.mine
  /\ ~cl["A"].arPending
  /\ ~PExists(room, uid("A"))

\* C11: once the Leave of a client has finished, and until its user enters the
\* room again, no step recreates the participant record of the identity that
\* left: neither the auto-rejoin effect nor a heartbeat tick, a delayed
\* presence clear or any other write of that client.
C11_NoResurrectionAfterLeave ==
  [][\A c \in Clients :
       cl[c].gone # None /\ ~PExists(room, cl[c].gone) =>
         ~PExists(room', cl[c].gone)]_vars

C13_OwnerlessRoomTerminates ==
  [][\A c \in Clients :
       Observe(c) /\ Exists(room) /\ room.owner = None =>
         ~cl'[c].mounted /\ cl'[c].pc = "idle" /\ ~cl'[c].subscribed]_vars

\* C13: B has been sent back to the entry screen, by a page load, from a room
\* that exists without an owner
C13_Witness ==
  /\ Exists(room)
  /\ room.owner = None
  /\ cl["B"].load = 2
  /\ AtHome("B")

\* C14: a client that finds an existing room without owner, in the owner-assign
\* transaction of initRoom or in joinRoom's transaction on the owner child,
\* does not make itself the owner.
C14_NoSelfPromotion ==
  [][\A c \in Clients :
       (InitTx(c) \/ JoinOwnerTx(c)) /\ Exists(room) /\ room.owner = None =>
         room'.owner # uid(c)]_vars

\* C15: when the Leave handler of a non-owner finishes without having
\* confirmed the removal of its record, and the record is in the store, the
\* record carries leftAt.
C15_LeftAtKeptWhenNotRemoved ==
  [][\A c \in Clients :
       /\ LeaveFinish(c)
       /\ cl[c].removed = "false"
       /\ PExists(room, uid(c))
       => room.participants[uid(c)].leftAt # 0]_vars

C17_LeftAtHidden ==
  \A u \in Uids :
    room.participants[u].leftAt # 0 =>
      u \notin Visible(room) /\ u \notin DOMAIN votes(room)

\* C17: the full record of a participant that has joined is in the store with
\* leftAt on it
C17_Witness ==
  /\ room.participants["a1"].leftAt # 0
  /\ room.participants["a1"].name # None
  /\ room.participants["a1"].lastSeen # 0
  /\ cl["A"].pc = "leave_rm"

\* C18 as stated: for every participant card an observer shows, its own
\* included, a lastSeen older than three heartbeat periods gives offline and a
\* lastSeen within three heartbeat periods gives online, whatever the
\* disconnectedAt flag and the observer's connectivity signal.
C18_OfflineFromLastSeen ==
  \A c \in Observers : \A u \in Visible(room) : \A isOffline \in BOOLEAN :
    LET p == room.participants[u]
    IN p.lastSeen # 0 =>
         (offline(p, u = uid(c), isOffline, now) <=> (now - p.lastSeen > OFFLINE_MS))

\* C18, amended: the same for every card other than the observer's own.
C18_OfflineFromLastSeenOfOthers ==
  \A c \in Observers : \A u \in Visible(room) \ {uid(c)} : \A isOffline \in BOOLEAN :
    LET p == room.participants[u]
    IN p.lastSeen # 0 =>
         (offline(p, FALSE, isOffline, now) <=> (now - p.lastSeen > OFFLINE_MS))

\* C18: time has passed, and A shows the card of another identity whose
\* disconnectedAt flag is set and whose lastSeen is within the threshold
C18_Witness ==
  /\ "A" \in Observers
  /\ now > TickMs
  /\ \E u \in Visible(room) \ {uid("A")} :
       /\ room.participants[u].disconnectedAt = "true"
       /\ room.participants[u].lastSeen # 0
       /\ now - room.participants[u].lastSeen <= OFFLINE_MS

\* C19: a participant whose lastSeen has never been written is shown online
\* on the card every other client shows of it.
C19_NoLastSeenIsOnline ==
  \A c \in Observers : \A u \in Visible(room) \ {uid(c)} : \A isOffline \in BOOLEAN :
    room.participants[u].lastSeen = 0 =>
      ~offline(room.participants[u], FALSE, isOffline, now)

\* C20: the rounded result of the aggregate is a numeric card at the smallest
\* distance from the mean of the numeric votes, and the largest of the cards
\* at that distance; without numeric votes there is no result.
C20_RoundsToNearestTieUp ==
  LET vs == votes(room)
      S == {u \in DOMAIN vs : parseFloat(vs[u]) # NaN}
      n == Cardinality(S)
      sum == SumVotes(vs, S)
      r == averageVote(vs)
  IN IF n = 0 THEN r = None
     ELSE /\ \E i \in 1..Len(CARDS) : CARDS[i] = r
          /\ parseFloat(r) # NaN
          /\ \A i \in 1..Len(CARDS) :
               LET d == parseFloat(CARDS[i])
               IN d # NaN =>
                    /\ Abs(parseFloat(r) * n - sum) <= Abs(d * n - sum)
                    /\ Abs(parseFloat(r) * n - sum) = Abs(d * n - sum) => d <= parseFloat(r)

\* C20: the votes are 1 and 2 (and a card that is no number): the mean 1.5 is
\* as far from 1 as from 2, and the result is 2
C20_Witness ==
  /\ room.participants["a1"].vote = "1"
  /\ room.participants["a2"].vote = "2"
  /\ room.participants["b1"].vote = "?"
  /\ averageVote(votes(room)) = "2"

\* C21: a vote or a rejoin cancels the deferred disconnect-writes the tab had
\* registered before it: after castVote none is registered, and after the
\* registration step of joinRoom only the ones registered by that step are.
C21_LivenessCancelsDeferred ==
  [][\A c \in Clients :
       /\ (\E v \in VoteInputs : castVote(c, v)) => cl'[c].odReg = 0
       /\ JoinCleanupTx(c) => cl'[c].odReg \in {0, now}]_vars

\* C22: no deferred write is registered on the participant record of the
\* identity that owns the room when the registration is made, and a deferred
\* write that fires changes nothing but the participant record it was
\* registered on: the room stays, with its owner, state, story and the other
\* records.
C22_DeferredOnlyOwnParticipant ==
  [][/\ \A c \in Clients :
          JoinCleanupTx(c) /\ cl'[c].odReg # 0 => room'.owner # uid(c)
     /\ \A e \in odPending :
          ServerFire(e) =>
            /\ room'.owner = room.owner
            /\ room'.state = room.state
            /\ room'.story = room.story
            /\ room'.createdAt = room.createdAt
            /\ \A u \in Uids \ {e.uid} :
                 room'.participants[u] = room.participants[u]]_vars

C24_FirstPresentSourceWins ==
  \A c \in Clients :
    cl[c].boot = "done" =>
      LET u == cl[c].url
      IN cl[c].roomId = IF Truthy(u.query) THEN u.query
                        ELSE IF Truthy(u.hash) THEN u.hash
                        ELSE IF Truthy(u.path) THEN u.path
                        ELSE ""

\* C25: when a reveal, a reset or a state write of the moderator is given up
\* (its failure is logged), a toast is put up in the same step, in a view
\* that shows it.
C25_FailureIsSurfaced ==
  [][\A c \in Clients :
       cl'[c].errorLog # cl[c].errorLog /\ cl'[c].errorLog # None =>
         /\ cl'[c].toast # None
         /\ cl'[c].mounted /\ cl'[c].view.has /\ ~cl'[c].roomMissing]_vars

\* C26: a kick of P reaches the store as the flag kicks[P] only: the
\* moderator's tab removes no participant record, in the kick or after it,
\* and the tab of P that sees the flag removes P's record.
C26_KickOnlyByFlag ==
  [][\A c \in Clients :
       /\ \A u \in Uids :
            kickParticipant(c, u) \/ KickRemove(c, u) =>
              room'.participants = room.participants
       /\ Observe(c) /\ room.kicks[uid(c)] => ~PExists(room', uid(c))]_vars

\* C27: a reveal or a reset that commits, and a removal of the whole room
\* (the moderator branch of Leave, the moderator's unload handler), is made
\* by the tab whose uid is the owner stored in the room when it commits.
C27_OnlyOwnerCommits ==
  [][\A c \in Clients :
       /\ (reveal(c) \/ reset(c)) /\ room' # room => room.owner = uid(c)
       /\ (LeaveClick(c) \/ Reload(c)) /\ Exists(room) /\ ~Exists(room') =>
            room.owner = uid(c)]_vars

\* C28: a tab whose connect has found the room missing shows the room-missing
\* panel, with its Retry, Create Room and Leave buttons, for as long as it
\* stays in the room view in that state.
C28_MissingRoomPanelShown ==
  \A c \in Clients :
    cl[c].mounted /\ cl[c].roomMissing /\ cl[c].pc = "idle" => PanelView(c)

\* C29: a reveal that commits sets revealOffline on every participant record
\* that is not the owner's and holds no vote, and leaves the revealOffline of
\* every other participant as it was.
C29_RevealMarksNonVoters ==
  [][\A c \in Clients :
       reveal(c) /\ Exists(room) =>
         \A u \in Uids :
           room'.participants[u].revealOffline =
             IF /\ PExists(room, u)
                /\ u # room.owner
                /\ room.participants[u].vote = None
             THEN "true"
             ELSE room.participants[u].revealOffline]_vars

\* C29: the room is revealed; a participant without a vote carries the flag,
\* the owner, without a vote too, does not
C29_Witness ==
  /\ room.state = "revealed"
  /\ room.owner # None
  /\ PExists(room, room.owner)
  /\ room.participants[room.owner].vote = None
  /\ room.participants[room.owner].revealOffline = None
  /\ \E u \in Uids \ {room.owner} :
       /\ room.participants[u].vote = None
       /\ room.participants[u].revealOffline = "true"

\* C30: a reveal that commits leaves disconnectedAt, disconnectedSession,
\* lastSeen and vote of every participant as they were.
C30_RevealKeepsPresenceAndVotes ==
  [][\A c \in Clients :
       reveal(c) =>
         \A u \in Uids :
           /\ room'.participants[u].disconnectedAt = room.participants[u].disconnectedAt
           /\ room'.participants[u].disconnectedSession = room.participants[u].disconnectedSession
           /\ room'.participants[u].lastSeen = room.participants[u].lastSeen
           /\ room'.participants[u].vote = room.participants[u].vote]_vars

\* C31: the first change joinRoom makes to the participant collection is the
\* commit of the rejoin transaction, which writes the joiner's record and
\* deletes the matched duplicates together: the pre-scan before it changes no
\* participant, and a step of the join that removes another record leaves
\* the joiner's record written.
C31_FirstMutationIsOneCommit ==
  [][\A c \in Clients :
       /\ JoinScan(c) => room'.participants = room.participants
       /\ JoinTx(c) /\ (\E o \in Uids \ {uid(c)} : PExists(room, o) /\ ~PExists(room', o))
            => PExists(room', uid(c))]_vars

\* C32: a step of joinRoom made while the joiner's record exists with a
\* joinedAt leaves that joinedAt as it was, whether the rejoin transaction
\* commits or the direct-set fallback runs.
C32_JoinedAtKept ==
  [][\A c \in Clients :
       LET old == room.participants[uid(c)]
       IN JoinStep(c) /\ PExists(room, uid(c)) /\ old.joinedAt # 0
            /\ PExists(room', uid(c))
          => room'.participants[uid(c)].joinedAt = old.joinedAt]_vars

\* C33: a pass of joinRoom (pre-scan, rejoin transaction, doCleanup, root
\* cleanup transaction) that removes the record of another identity which
\* carries the joiner's display name and is marked disconnected, and which
\* no other rule matches (another clientId, lastSeen set and fresh), finds
\* its disconnect marker scoped to no session or to another session than the
\* joiner's current one.
C33_SessionCheckInEveryPass ==
  [][\A c \in Clients : \A o \in Uids \ {uid(c)} :
       LET p == room.participants[o]
       IN /\ JoinStep(c) \/ DoCleanup(c)
          /\ PExists(room, o) /\ ~PExists(room', o)
          /\ nameMatches(p, displayName[c]) /\ p.disconnectedAt = "true"
          /\ p.clientId # c
          /\ p.lastSeen # 0 /\ now - p.lastSeen <= CLEAN_STALE_MS_T
          => p.disconnectedSession # sessionId(c)]_vars

\* C34: a heartbeat write of lastSeen is issued only by a tab whose Room
\* view is up: after the view is torn down (Leave, kick, room removed,
\* ownerless redirect, navigation away) the tab writes no lastSeen.
C34_NoHeartbeatAfterTeardown ==
  [][\A c \in Clients : Heartbeat(c) /\ room' # room => cl[c].mounted]_vars

\* C35: a Leave handler that has started its removal attempts reaches its
\* end: the left flag is set and the tab is back on the entry screen, with
\* its navigation scheduled, whether or not the record has been removed.
C35_LeaveTerminates ==
  \A c \in Clients :
    cl[c].pc = "leave_rm" ~>
      (cl[c].pc = "leave_nav" /\ cl[c].leftFlag /\ ~cl[c].mounted)

\* C35: the handler of A is at its end, every removal was rejected and A's
\* record is still in the room
C35_Witness ==
  /\ cl["A"].pc = "leave_nav"
  /\ cl["A"].leftFlag
  /\ ~cl["A"].mounted
  /\ PExists(room, uid("A"))
  /\ room.participants[uid("A")].leftAt # 0

C37_NoVoteChangeWhileRevealed ==
  [][room.state = "revealed" /\ room'.state = "revealed" =>
       \A u \in Uids :
         PExists(room', u) => room'.participants[u].vote = room.participants[u].vote]_vars

\* C38: an invocation of the cleanup function does not remove the record of
\* an identity whose tab has joined again since the leftAt write that fired
\* it (joined, no left flag) and whose record carries no leftAt any more.
C38_TriggerSparesRejoined ==
  [][\A e \in trigger.events :
       removeParticipantOnLeft(e) /\ PExists(room, e.uid) /\ ~PExists(room', e.uid) =>
         ~\E c \in Clients :
            /\ uid(c) = e.uid
            /\ cl[c].joined /\ ~cl[c].leftFlag
            /\ room.participants[e.uid].leftAt = 0]_vars

\* C39: while a tab that was sent to the entry screen by a kick stays there,
\* and its record is not in the room, no step puts its record back: the
\* record returns only after the user has entered the room again.
C39_KickedStaysOut ==
  [][\A c \in Clients :
       /\ cl[c].kicked /\ ~cl[c].mounted /\ ~cl'[c].mounted
       /\ ~PExists(room, uid(c))
       => ~PExists(room', uid(c))]_vars

\* C40: a pass of joinRoom on one device removes no record of another
\* device (another clientId) whose session is live: its tab is in the room
\* with its heartbeat running, its lastSeen is fresh, and its connection has
\* not dropped (no deferred write of it is pending or has been performed).
C40_LiveDeviceNotRemoved ==
  [][\A c \in Clients : \A d \in Clients \ {c} :
       LET p == room.participants[uid(d)]
       IN /\ JoinStep(c) \/ DoCleanup(c)
          /\ PExists(room, uid(d))
          /\ p.clientId = d
          /\ cl[d].mounted /\ cl[d].hb
          /\ p.lastSeen # 0 /\ now - p.lastSeen < OFFLINE_MS
          /\ p.disconnectedSession = None
          /\ \A e \in odPending : e.uid # uid(d)
          => PExists(room', uid(d))]_vars

====
